---------------------------- MODULE Spec2Model ----------------------------
(***************************************************************************)
(* Model of wotan::winService (application/service/winService.cpp): the    *)
(* service control state machine that reports lifecycle states to the      *)
(* service control manager (SCM) and forwards control requests to the      *)
(* lifecycle callbacks onStart, onStop, onPause, onContinue, onShutdown.   *)
(*                                                                         *)
(* Two threads of control exist: the service thread, which runs            *)
(* ServiceMain and start(), and the control dispatcher thread, which runs  *)
(* ServiceCtrlHandler and the handlers it calls.  Each has a program       *)
(* counter; one action is one step of a handler: a callback invocation, a  *)
(* catch block, a call of setServiceStatus, or one access to the data the  *)
(* two threads share (status_, the static checkpoint counter,              *)
(* statusHandle_).                                                         *)
(***************************************************************************)
EXTENDS Integers, Sequences, FiniteSets, TLC

(***************************************************************************)
(* Bounds of the model.                                                    *)
(***************************************************************************)
\* Number of control requests delivered to ServiceCtrlHandler in a run.
MaxRequests == 2
\* Number of control requests delivered in a run in which delivery may
\* overlap ServiceMain and start().
MaxOverlapped == 1
\* Structured failures carry an error code in 0..MaxErrorCode, or 5.
MaxErrorCode == 0

(***************************************************************************)
(* Platform constants used by the source, with their winsvc.h/winnt.h      *)
(* values.                                                                 *)
(***************************************************************************)
SERVICE_STOPPED == 1
SERVICE_START_PENDING == 2
SERVICE_STOP_PENDING == 3
SERVICE_RUNNING == 4
SERVICE_CONTINUE_PENDING == 5
SERVICE_PAUSE_PENDING == 6
SERVICE_PAUSED == 7

SERVICE_CONTROL_STOP == 1
SERVICE_CONTROL_PAUSE == 2
SERVICE_CONTROL_CONTINUE == 3
SERVICE_CONTROL_INTERROGATE == 4
SERVICE_CONTROL_SHUTDOWN == 5
SERVICE_CONTROL_PARAMCHANGE == 6
\* First user-defined control code (the range 128..255 of the header comment).
SERVICE_CONTROL_USER == 128

SERVICE_ACCEPT_STOP == 1
SERVICE_ACCEPT_PAUSE_CONTINUE == 2
SERVICE_ACCEPT_SHUTDOWN == 4

SERVICE_WIN32_OWN_PROCESS == 16
NO_ERROR == 0
EVENTLOG_ERROR_TYPE == 1
\* A NULL handle.
NULL == 0

\* Default arguments of setServiceStatus(dwCurrentState, dwWin32ExitCode,
\* dwWaitHint), declared in winService.hpp: report(handle, state,
\* exitCode=0, waitHintMs=0).
DefaultWin32ExitCode == NO_ERROR
DefaultWaitHint == 0

\* The control codes the SCM may deliver; the last two take the default
\* branch of the switch.
CtrlCodes ==
    {SERVICE_CONTROL_STOP, SERVICE_CONTROL_PAUSE, SERVICE_CONTROL_CONTINUE,
     SERVICE_CONTROL_INTERROGATE, SERVICE_CONTROL_SHUTDOWN,
     SERVICE_CONTROL_PARAMCHANGE, SERVICE_CONTROL_USER}

\* The DWORD codes a callback may throw: 0 (NO_ERROR), the small codes up to
\* MaxErrorCode, and 5 (ERROR_ACCESS_DENIED, the code of the scenario of
\* section 8).
ErrorCodes == (0..MaxErrorCode) \cup {5}

\* What a lifecycle callback may do: return normally, throw a DWORD
\* (structured failure), or throw anything else (unstructured failure).
Outcomes ==
    {[kind |-> "ok", code |-> 0], [kind |-> "other", code |-> 0]}
        \cup {[kind |-> "dword", code |-> c] : c \in ErrorCodes}

VARIABLES
    status,         \* status_ : the SERVICE_STATUS of the service
    statusHandle,   \* statusHandle_
    dwCheckPoint,   \* the static counter of setServiceStatus
    reports,        \* every call of ::SetServiceStatus: the handle passed
                    \* and the SERVICE_STATUS read through the pointer
    main,           \* the service thread (ServiceMain, start)
    ctrl,           \* the control dispatcher thread (ServiceCtrlHandler)
    nreq            \* control requests delivered so far

vars == <<status, statusHandle, dwCheckPoint, reports, main, ctrl, nreq>>

(***************************************************************************)
(* Events recorded in a thread's trace of the handler it runs.             *)
(***************************************************************************)
\* A call of ::SetServiceStatus; arg is the index of the report in reports.
ReportEv(i) ==
    [kind |-> "report", name |-> "SetServiceStatus", arg |-> i,
     wType |-> 0, hEventSource |-> NULL]

\* An invocation of a lifecycle callback.
CallEv(cb) ==
    [kind |-> "callback", name |-> cb, arg |-> 0,
     wType |-> 0, hEventSource |-> NULL]

\* A call of writeEventLogEntry; ReportEvent is reached only with a
\* non-NULL event source.
LogEv(pszMessage, dwError, wType, hEventSource) ==
    [kind |-> "log", name |-> pszMessage, arg |-> dwError,
     wType |-> wType, hEventSource |-> hEventSource]

\* writeErrorLogEntry(pszFunction, dwError): the message "<pszFunction>
\* failed w/err 0x<dwError>" is kept as its two arguments (name, arg) and
\* logged with EVENTLOG_ERROR_TYPE.
writeErrorLogEntry(pszFunction, dwError, hEventSource) ==
    LogEv(pszFunction, dwError, EVENTLOG_ERROR_TYPE, hEventSource)

\* writeEventLogEntry(pszMessage, wType).
writeEventLogEntry(pszMessage, wType, hEventSource) ==
    LogEv(pszMessage, 0, wType, hEventSource)

\* RegisterEventSource may fail (NULL) or give a handle.
EventSources == {NULL, 1}

(***************************************************************************)
(* winService::winService                                                  *)
(***************************************************************************)
ControlsAccepted(fCanStop, fCanShutdown, fCanPauseContinue) ==
    (IF fCanStop THEN SERVICE_ACCEPT_STOP ELSE 0)
        + (IF fCanShutdown THEN SERVICE_ACCEPT_SHUTDOWN ELSE 0)
        + (IF fCanPauseContinue THEN SERVICE_ACCEPT_PAUSE_CONTINUE ELSE 0)

Constructed(fCanStop, fCanShutdown, fCanPauseContinue) ==
    [dwServiceType |-> SERVICE_WIN32_OWN_PROCESS,
     dwCurrentState |-> SERVICE_START_PENDING,
     dwControlsAccepted |->
         ControlsAccepted(fCanStop, fCanShutdown, fCanPauseContinue),
     dwWin32ExitCode |-> NO_ERROR,
     dwServiceSpecificExitCode |-> 0,
     dwCheckPoint |-> 0,
     dwWaitHint |-> 0]

\* The arguments of a call of setServiceStatus that has not been made;
\* todo is the set of accesses to shared data the thread has still to make
\* before its next call of ::SetServiceStatus.
NoFrame == [dwCurrentState |-> 0, dwWin32ExitCode |-> 0, dwWaitHint |-> 0,
            todo |-> {}]

\* A thread inside setServiceStatus keeps the arguments of the call (frame),
\* the program counter to return to (ret), the value it read from the
\* static counter (counter) and the handle it read from statusHandle_
\* (hServiceStatus).  handle is the value RegisterServiceCtrlHandler
\* returned to ServiceMain.
MainIdle == [pc |-> "ServiceMain", outcome |-> "none", dwError |-> 0,
             trace |-> <<>>, handle |-> NULL,
             ret |-> "none", frame |-> NoFrame, counter |-> 0,
             hServiceStatus |-> NULL]

\* handled keeps, for each request handled before the current one, its
\* control code and the outcome of its callback.
CtrlIdle == [pc |-> "idle", dwCtrl |-> 0, outcome |-> "none", dwError |-> 0,
             dwOriginalState |-> 0, trace |-> <<>>, handled |-> <<>>,
             ret |-> "none", frame |-> NoFrame, counter |-> 0,
             hServiceStatus |-> NULL]

Init ==
    /\ \E fCanStop \in BOOLEAN, fCanShutdown \in BOOLEAN,
          fCanPauseContinue \in BOOLEAN :
           status = Constructed(fCanStop, fCanShutdown, fCanPauseContinue)
    /\ statusHandle = NULL
    /\ dwCheckPoint = 1
    /\ reports = <<>>
    /\ main = MainIdle
    /\ ctrl = CtrlIdle
    /\ nreq = 0

(***************************************************************************)
(* winService::setServiceStatus                                            *)
(***************************************************************************)
\* The checkpoint written to status_.dwCheckPoint.
CheckPointFor(dwCurrentState, counter) ==
    IF dwCurrentState = SERVICE_RUNNING \/ dwCurrentState = SERVICE_STOPPED
    THEN 0
    ELSE counter

\* Variant: the counter is read but never advanced.
CounterAfter_NoIncrement(dwCurrentState, counter) == counter

\* The static counter after the call (dwCheckPoint++ is taken only in the
\* else branch of the conditional).  The counter is a DWORD; it takes at
\* most two steps per request, so within MaxRequests it stays far below
\* the 2^32 at which it would wrap.
CounterAfter(dwCurrentState, counter) ==
    IF dwCurrentState = SERVICE_RUNNING \/ dwCurrentState = SERVICE_STOPPED
    THEN counter
    ELSE counter + 1

\* The condition of the conditional expression that gives the checkpoint.
ResetsCheckPoint(dwCurrentState) ==
    dwCurrentState = SERVICE_RUNNING \/ dwCurrentState = SERVICE_STOPPED

\* The accesses to shared data that a call of setServiceStatus makes before
\* it calls ::SetServiceStatus: the three stores of lines 332-334, the
\* store of the checkpoint, the read of statusHandle_ and, when the state
\* is neither Running nor Stopped, the read and the write of dwCheckPoint++.
Accesses(dwCurrentState) ==
    {"dwCurrentState", "dwWin32ExitCode", "dwWaitHint", "dwCheckPoint",
     "statusHandle"}
        \cup (IF ResetsCheckPoint(dwCurrentState) THEN {}
              ELSE {"dwCheckPoint_read", "dwCheckPoint_write"})

\* Variant: the exit code and the wait hint are stored in each other's field.
setServiceStatus_SwapsArguments(dwCurrentState, dwWin32ExitCode, dwWaitHint) ==
    [dwCurrentState |-> dwCurrentState,
     dwWin32ExitCode |-> dwWaitHint,
     dwWaitHint |-> dwWin32ExitCode,
     todo |-> Accesses(dwCurrentState)]

\* A call of setServiceStatus: the arguments, as the callee holds them, and
\* the accesses it has to make.  The thread that calls it is at
\* "setServiceStatus" with this frame; the body of the function is the
\* steps below.
setServiceStatus(dwCurrentState, dwWin32ExitCode, dwWaitHint) ==
    [dwCurrentState |-> dwCurrentState,
     dwWin32ExitCode |-> dwWin32ExitCode,
     dwWaitHint |-> dwWaitHint,
     todo |-> Accesses(dwCurrentState)]

Threads == {"main", "ctrl"}

ThreadOf(th) == IF th = "main" THEN main ELSE ctrl

\* Thread th goes on as t; the other thread does not move.
Resume(th, t) ==
    IF th = "main" THEN main' = t /\ UNCHANGED ctrl
    ELSE ctrl' = t /\ UNCHANGED main

\* The accesses thread th has still to make, and th after it made access a.
Todo(th) == ThreadOf(th).frame.todo
Taken(th, a) == [ThreadOf(th) EXCEPT !.frame.todo = @ \ {a}]

\* What the language leaves of the source order of the accesses a thread
\* makes between two calls it cannot see into (a callback, the logging
\* routine, ::SetServiceStatus, RegisterServiceCtrlHandler): an access
\* follows the access whose value it needs, a store to a location follows
\* the read of that location, and a read follows the thread's own store.
\*   - the store of dwCurrentState follows stop()'s read of it (line 198);
\*   - the write of the counter and the store of the checkpoint follow the
\*     read of the counter;
\*   - the read of statusHandle_ follows ServiceMain's store of it.
Before(a) ==
    CASE a = "dwCurrentState" -> {"dwOriginalState"}
      [] a = "dwCheckPoint_write" -> {"dwCheckPoint_read"}
      [] a = "dwCheckPoint" -> {"dwCheckPoint_read"}
      [] a = "statusHandle" -> {"statusHandle_"}
      [] OTHER -> {}

\* Thread th can make access a now.
Ready(th, a) == a \in Todo(th) /\ Before(a) \cap Todo(th) = {}

\* service_->statusHandle_ = (the handle RegisterServiceCtrlHandler
\* returned, not NULL);
ServiceMain_statusHandle ==
    /\ Ready("main", "statusHandle_")
    /\ statusHandle' = main.handle
    /\ main' = Taken("main", "statusHandle_")
    /\ UNCHANGED <<status, dwCheckPoint, reports, ctrl, nreq>>

\* DWORD dwOriginalState = status_.dwCurrentState;
stop_dwOriginalState ==
    /\ Ready("ctrl", "dwOriginalState")
    /\ ctrl' = [Taken("ctrl", "dwOriginalState") EXCEPT
                   !.dwOriginalState = status.dwCurrentState]
    /\ UNCHANGED <<status, statusHandle, dwCheckPoint, reports, main, nreq>>

\* Variant: no control is accepted while a start is pending.
setServiceStatus_dwCurrentState_MasksControls(th) ==
    /\ Ready(th, "dwCurrentState")
    /\ status' = [status EXCEPT
                    !.dwCurrentState = ThreadOf(th).frame.dwCurrentState,
                    !.dwControlsAccepted =
                        IF ThreadOf(th).frame.dwCurrentState
                               = SERVICE_START_PENDING
                        THEN 0 ELSE @]
    /\ Resume(th, Taken(th, "dwCurrentState"))
    /\ UNCHANGED <<statusHandle, dwCheckPoint, reports, nreq>>

\* status_.dwCurrentState = dwCurrentState;
setServiceStatus_dwCurrentState(th) ==
    /\ Ready(th, "dwCurrentState")
    /\ status' = [status EXCEPT
                    !.dwCurrentState = ThreadOf(th).frame.dwCurrentState]
    /\ Resume(th, Taken(th, "dwCurrentState"))
    /\ UNCHANGED <<statusHandle, dwCheckPoint, reports, nreq>>

\* status_.dwWin32ExitCode = dwWin32ExitCode;
setServiceStatus_dwWin32ExitCode(th) ==
    /\ Ready(th, "dwWin32ExitCode")
    /\ status' = [status EXCEPT
                    !.dwWin32ExitCode = ThreadOf(th).frame.dwWin32ExitCode]
    /\ Resume(th, Taken(th, "dwWin32ExitCode"))
    /\ UNCHANGED <<statusHandle, dwCheckPoint, reports, nreq>>

\* status_.dwWaitHint = dwWaitHint;
setServiceStatus_dwWaitHint(th) ==
    /\ Ready(th, "dwWaitHint")
    /\ status' = [status EXCEPT
                    !.dwWaitHint = ThreadOf(th).frame.dwWaitHint]
    /\ Resume(th, Taken(th, "dwWaitHint"))
    /\ UNCHANGED <<statusHandle, dwCheckPoint, reports, nreq>>

\* dwCheckPoint++, the read: the value of the static counter is taken.
setServiceStatus_dwCheckPoint_read(th) ==
    /\ Ready(th, "dwCheckPoint_read")
    /\ Resume(th, [Taken(th, "dwCheckPoint_read") EXCEPT
                     !.counter = dwCheckPoint])
    /\ UNCHANGED <<status, statusHandle, dwCheckPoint, reports, nreq>>

\* dwCheckPoint++, the write: the value read, plus one, is stored back,
\* whatever the counter holds by now.
setServiceStatus_dwCheckPoint_write(th) ==
    /\ Ready(th, "dwCheckPoint_write")
    /\ dwCheckPoint' =
           CounterAfter(ThreadOf(th).frame.dwCurrentState, ThreadOf(th).counter)
    /\ Resume(th, Taken(th, "dwCheckPoint_write"))
    /\ UNCHANGED <<status, statusHandle, reports, nreq>>

\* status_.dwCheckPoint = ... ? 0 : (the value read);
setServiceStatus_dwCheckPoint(th) ==
    /\ Ready(th, "dwCheckPoint")
    /\ status' = [status EXCEPT
                    !.dwCheckPoint =
                        CheckPointFor(ThreadOf(th).frame.dwCurrentState,
                                      ThreadOf(th).counter)]
    /\ Resume(th, Taken(th, "dwCheckPoint"))
    /\ UNCHANGED <<statusHandle, dwCheckPoint, reports, nreq>>

\* ::SetServiceStatus(statusHandle_, &status_), the arguments: the handle
\* is read from statusHandle_ and passed by value, status_ by address.
setServiceStatus_statusHandle(th) ==
    /\ Ready(th, "statusHandle")
    /\ Resume(th, [Taken(th, "statusHandle") EXCEPT
                     !.hServiceStatus = statusHandle])
    /\ UNCHANGED <<status, statusHandle, dwCheckPoint, reports, nreq>>

\* What a call of ::SetServiceStatus(hServiceStatus, lpServiceStatus) hands
\* to the SCM.
Report(hServiceStatus, lpServiceStatus) ==
    [hServiceStatus |-> hServiceStatus,
     dwServiceType |-> lpServiceStatus.dwServiceType,
     dwCurrentState |-> lpServiceStatus.dwCurrentState,
     dwControlsAccepted |-> lpServiceStatus.dwControlsAccepted,
     dwWin32ExitCode |-> lpServiceStatus.dwWin32ExitCode,
     dwServiceSpecificExitCode |-> lpServiceStatus.dwServiceSpecificExitCode,
     dwCheckPoint |-> lpServiceStatus.dwCheckPoint,
     dwWaitHint |-> lpServiceStatus.dwWaitHint]

\* The call of ::SetServiceStatus, made when every access before it has
\* been made: the callee reads the structure through the pointer, so it
\* reports what status_ holds at that moment, and setServiceStatus returns.
SetServiceStatus(th) ==
    /\ ThreadOf(th).pc = "setServiceStatus"
    /\ Todo(th) = {}
    /\ reports' = Append(reports, Report(ThreadOf(th).hServiceStatus, status))
    /\ Resume(th, [ThreadOf(th) EXCEPT
                     !.pc = ThreadOf(th).ret,
                     !.ret = "none",
                     !.frame = NoFrame,
                     !.counter = 0,
                     !.hServiceStatus = NULL,
                     !.trace = Append(@, ReportEv(Len(reports')))])
    /\ UNCHANGED <<status, statusHandle, dwCheckPoint, nreq>>

\* The program counter after a callback, by its outcome.
AfterCallback(o, ok, catchDword, catchAll) ==
    CASE o.kind = "ok" -> ok
      [] o.kind = "dword" -> catchDword
      [] OTHER -> catchAll

(***************************************************************************)
(* winService::ServiceMain and winService::start (service thread)          *)
(***************************************************************************)
\* RegisterServiceCtrlHandler(name_, ServiceCtrlHandler) registers the
\* handler and returns a handle, or fails and returns NULL.  From its
\* return on, the handler can be called; the handle is not stored yet.
RegisterServiceCtrlHandler ==
    /\ main.pc = "ServiceMain"
    /\ \E h \in {NULL, 1} :
        main' = [main EXCEPT !.pc = "ServiceMain_statusHandle", !.handle = h]
    /\ UNCHANGED <<status, statusHandle, dwCheckPoint, reports, ctrl, nreq>>

\* The handler has been registered with the SCM.
Registered == main.pc # "ServiceMain" /\ main.handle # NULL

\* Variant: the handle is not tested before start() is called.
ServiceMain_Unchecked ==
    /\ main.pc = "ServiceMain_statusHandle"
    /\ IF main.handle = NULL
       THEN /\ statusHandle' = main.handle
            /\ main' = [main EXCEPT !.pc = "start_pending"]
       ELSE /\ UNCHANGED statusHandle
            /\ main' = [main EXCEPT !.pc = "start_pending",
                                    !.frame.todo = {"statusHandle_"}]
    /\ UNCHANGED <<status, dwCheckPoint, reports, ctrl, nreq>>

\* The test of the returned handle.  On NULL the handle is stored and
\* ServiceMain throws GetLastError(): start() is never called.  Otherwise
\* start() is called; the store of the handle in statusHandle_ is one of
\* the accesses made before the first call of ::SetServiceStatus.
ServiceMain ==
    /\ main.pc = "ServiceMain_statusHandle"
    /\ IF main.handle = NULL
       THEN /\ statusHandle' = main.handle
            /\ main' = [main EXCEPT !.pc = "thrown"]
       ELSE /\ UNCHANGED statusHandle
            /\ main' = [main EXCEPT !.pc = "start_pending",
                                    !.frame.todo = {"statusHandle_"}]
    /\ UNCHANGED <<status, dwCheckPoint, reports, ctrl, nreq>>

start_pending ==
    /\ main.pc = "start_pending"
    /\ main' = [main EXCEPT
                   !.pc = "setServiceStatus",
                   !.ret = "start_onStart",
                   !.frame =
                       [setServiceStatus(SERVICE_START_PENDING,
                                         DefaultWin32ExitCode, DefaultWaitHint)
                           EXCEPT !.todo = @ \cup main.frame.todo]]
    /\ UNCHANGED <<status, statusHandle, dwCheckPoint, reports, ctrl, nreq>>

start_onStart ==
    /\ main.pc = "start_onStart"
    /\ \E o \in Outcomes :
        main' = [main EXCEPT
                   !.pc = AfterCallback(o, "start_running",
                                        "start_catchDword", "start_catchAll"),
                   !.outcome = o.kind,
                   !.dwError = o.code,
                   !.trace = Append(@, CallEv("onStart"))]
    /\ UNCHANGED <<status, statusHandle, dwCheckPoint, reports, ctrl, nreq>>

start_running ==
    /\ main.pc = "start_running"
    /\ main' = [main EXCEPT
                   !.pc = "setServiceStatus",
                   !.ret = "returned",
                   !.frame = setServiceStatus(SERVICE_RUNNING, DefaultWin32ExitCode, DefaultWaitHint)]
    /\ UNCHANGED <<status, statusHandle, dwCheckPoint, reports, ctrl, nreq>>

\* Variant: the caught code is not passed on to the report.
start_catchDword_NoCode ==
    /\ main.pc = "start_catchDword"
    /\ \E hEventSource \in EventSources :
        main' = [main EXCEPT
                   !.pc = "setServiceStatus",
                   !.ret = "returned",
                   !.frame = setServiceStatus(SERVICE_STOPPED, DefaultWin32ExitCode, DefaultWaitHint),
                   !.trace = Append(@,
                       writeErrorLogEntry("Service Start", main.dwError,
                                            hEventSource))]
    /\ UNCHANGED <<status, statusHandle, dwCheckPoint, reports, ctrl, nreq>>

start_catchDword ==
    /\ main.pc = "start_catchDword"
    /\ \E hEventSource \in EventSources :
        main' = [main EXCEPT
                   !.pc = "setServiceStatus",
                   !.ret = "returned",
                   !.frame = setServiceStatus(SERVICE_STOPPED, main.dwError, DefaultWaitHint),
                   !.trace = Append(@,
                       writeErrorLogEntry("Service Start", main.dwError,
                                            hEventSource))]
    /\ UNCHANGED <<status, statusHandle, dwCheckPoint, reports, ctrl, nreq>>

start_catchAll ==
    /\ main.pc = "start_catchAll"
    /\ \E hEventSource \in EventSources :
        main' = [main EXCEPT
                   !.pc = "setServiceStatus",
                   !.ret = "returned",
                   !.frame = setServiceStatus(SERVICE_STOPPED, DefaultWin32ExitCode, DefaultWaitHint),
                   !.trace = Append(@,
                       writeEventLogEntry("Service failed to start.",
                                            EVENTLOG_ERROR_TYPE, hEventSource))]
    /\ UNCHANGED <<status, statusHandle, dwCheckPoint, reports, ctrl, nreq>>

(***************************************************************************)
(* winService::ServiceCtrlHandler (control dispatcher thread)              *)
(***************************************************************************)
\* Variant: the default case falls into stop().
Dispatch_DefaultStops(dwCtrl) ==
    CASE dwCtrl = SERVICE_CONTROL_STOP -> "stop_entry"
      [] dwCtrl = SERVICE_CONTROL_PAUSE -> "pause_pending"
      [] dwCtrl = SERVICE_CONTROL_CONTINUE -> "continue_pending"
      [] dwCtrl = SERVICE_CONTROL_SHUTDOWN -> "shutdown_onShutdown"
      [] dwCtrl = SERVICE_CONTROL_INTERROGATE -> "idle"
      [] OTHER -> "stop_entry"

\* Variant: a request delivered to a stopped service is ignored.
Dispatch_IgnoresWhenStopped(dwCtrl) ==
    IF status.dwCurrentState = SERVICE_STOPPED THEN "idle"
    ELSE CASE dwCtrl = SERVICE_CONTROL_STOP -> "stop_entry"
           [] dwCtrl = SERVICE_CONTROL_PAUSE -> "pause_pending"
           [] dwCtrl = SERVICE_CONTROL_CONTINUE -> "continue_pending"
           [] dwCtrl = SERVICE_CONTROL_SHUTDOWN -> "shutdown_onShutdown"
           [] dwCtrl = SERVICE_CONTROL_INTERROGATE -> "idle"
           [] OTHER -> "idle"

\* The handler the switch calls for dwCtrl, as the first step of it; a code
\* with an empty case returns at once.
Dispatch(dwCtrl) ==
    CASE dwCtrl = SERVICE_CONTROL_STOP -> "stop_entry"
      [] dwCtrl = SERVICE_CONTROL_PAUSE -> "pause_pending"
      [] dwCtrl = SERVICE_CONTROL_CONTINUE -> "continue_pending"
      [] dwCtrl = SERVICE_CONTROL_SHUTDOWN -> "shutdown_onShutdown"
      [] dwCtrl = SERVICE_CONTROL_INTERROGATE -> "idle"
      [] OTHER -> "idle"

\* The requests handled so far, once the handler is entered again.
Handled ==
    IF nreq = 0 THEN <<>>
    ELSE Append(ctrl.handled,
                [dwCtrl |-> ctrl.dwCtrl, outcome |-> ctrl.outcome])

\* The SCM calls the registered handler, one request at a time; the
\* handler tests neither statusHandle_ nor the current state.
ServiceCtrlHandler(dwCtrl) ==
    /\ ctrl.pc = "idle"
    /\ Registered
    /\ nreq < MaxRequests
    /\ nreq' = nreq + 1
    /\ ctrl' = [CtrlIdle EXCEPT !.pc = Dispatch(dwCtrl), !.dwCtrl = dwCtrl,
                                !.handled = Handled]
    /\ UNCHANGED <<status, statusHandle, dwCheckPoint, reports, main>>

(***************************************************************************)
(* winService::stop                                                        *)
(***************************************************************************)
\* Variant: the original state is read after the pending report.
stop_entry_AfterPending ==
    /\ ctrl.pc = "stop_entry"
    /\ ctrl' = [ctrl EXCEPT !.pc = "stop_pending",
                            !.dwOriginalState = SERVICE_STOP_PENDING]
    /\ UNCHANGED <<status, statusHandle, dwCheckPoint, reports, main, nreq>>

\* stop() is entered: the read of status_.dwCurrentState into
\* dwOriginalState is one of the accesses made before the first call of
\* ::SetServiceStatus.
stop_entry ==
    /\ ctrl.pc = "stop_entry"
    /\ ctrl' = [ctrl EXCEPT !.pc = "stop_pending",
                            !.frame.todo = {"dwOriginalState"}]
    /\ UNCHANGED <<status, statusHandle, dwCheckPoint, reports, main, nreq>>

stop_pending ==
    /\ ctrl.pc = "stop_pending"
    /\ ctrl' = [ctrl EXCEPT
                   !.pc = "setServiceStatus",
                   !.ret = "stop_onStop",
                   !.frame =
                       [setServiceStatus(SERVICE_STOP_PENDING,
                                         DefaultWin32ExitCode, DefaultWaitHint)
                           EXCEPT !.todo = @ \cup ctrl.frame.todo]]
    /\ UNCHANGED <<status, statusHandle, dwCheckPoint, reports, main, nreq>>

stop_onStop ==
    /\ ctrl.pc = "stop_onStop"
    /\ \E o \in Outcomes :
        ctrl' = [ctrl EXCEPT
                   !.pc = AfterCallback(o, "stop_stopped",
                                        "stop_catchDword", "stop_catchAll"),
                   !.outcome = o.kind,
                   !.dwError = o.code,
                   !.trace = Append(@, CallEv("onStop"))]
    /\ UNCHANGED <<status, statusHandle, dwCheckPoint, reports, main, nreq>>

\* Variant: the success report repeats the pending state.
stop_stopped_RepeatsPending ==
    /\ ctrl.pc = "stop_stopped"
    /\ ctrl' = [ctrl EXCEPT
                   !.pc = "setServiceStatus",
                   !.ret = "idle",
                   !.frame = setServiceStatus(SERVICE_STOP_PENDING, DefaultWin32ExitCode, DefaultWaitHint)]
    /\ UNCHANGED <<status, statusHandle, dwCheckPoint, reports, main, nreq>>

stop_stopped ==
    /\ ctrl.pc = "stop_stopped"
    /\ ctrl' = [ctrl EXCEPT
                   !.pc = "setServiceStatus",
                   !.ret = "idle",
                   !.frame = setServiceStatus(SERVICE_STOPPED, DefaultWin32ExitCode, DefaultWaitHint)]
    /\ UNCHANGED <<status, statusHandle, dwCheckPoint, reports, main, nreq>>

\* Variant: the rollback target is fixed, as in pause().
stop_catchDword_Running ==
    /\ ctrl.pc = "stop_catchDword"
    /\ \E hEventSource \in EventSources :
        ctrl' = [ctrl EXCEPT
                   !.pc = "setServiceStatus",
                   !.ret = "idle",
                   !.frame = setServiceStatus(SERVICE_RUNNING, DefaultWin32ExitCode, DefaultWaitHint),
                   !.trace = Append(@,
                       writeErrorLogEntry("Service Stop", ctrl.dwError,
                                            hEventSource))]
    /\ UNCHANGED <<status, statusHandle, dwCheckPoint, reports, main, nreq>>

stop_catchDword ==
    /\ ctrl.pc = "stop_catchDword"
    /\ \E hEventSource \in EventSources :
        ctrl' = [ctrl EXCEPT
                   !.pc = "setServiceStatus",
                   !.ret = "idle",
                   !.frame = setServiceStatus(ctrl.dwOriginalState, DefaultWin32ExitCode, DefaultWaitHint),
                   !.trace = Append(@,
                       writeErrorLogEntry("Service Stop", ctrl.dwError,
                                            hEventSource))]
    /\ UNCHANGED <<status, statusHandle, dwCheckPoint, reports, main, nreq>>

\* Variant: the failure is rolled back without being logged.
stop_catchAll_NoLog ==
    /\ ctrl.pc = "stop_catchAll"
    /\ ctrl' = [ctrl EXCEPT
                   !.pc = "setServiceStatus",
                   !.ret = "idle",
                   !.frame = setServiceStatus(ctrl.dwOriginalState, DefaultWin32ExitCode, DefaultWaitHint)]
    /\ UNCHANGED <<status, statusHandle, dwCheckPoint, reports, main, nreq>>

stop_catchAll ==
    /\ ctrl.pc = "stop_catchAll"
    /\ \E hEventSource \in EventSources :
        ctrl' = [ctrl EXCEPT
                   !.pc = "setServiceStatus",
                   !.ret = "idle",
                   !.frame = setServiceStatus(ctrl.dwOriginalState, DefaultWin32ExitCode, DefaultWaitHint),
                   !.trace = Append(@,
                       writeEventLogEntry("Service failed to stop.",
                                            EVENTLOG_ERROR_TYPE, hEventSource))]
    /\ UNCHANGED <<status, statusHandle, dwCheckPoint, reports, main, nreq>>

(***************************************************************************)
(* winService::pause                                                       *)
(***************************************************************************)
pause_pending ==
    /\ ctrl.pc = "pause_pending"
    /\ ctrl' = [ctrl EXCEPT
                   !.pc = "setServiceStatus",
                   !.ret = "pause_onPause",
                   !.frame = setServiceStatus(SERVICE_PAUSE_PENDING, DefaultWin32ExitCode, DefaultWaitHint)]
    /\ UNCHANGED <<status, statusHandle, dwCheckPoint, reports, main, nreq>>

pause_onPause ==
    /\ ctrl.pc = "pause_onPause"
    /\ \E o \in Outcomes :
        ctrl' = [ctrl EXCEPT
                   !.pc = AfterCallback(o, "pause_paused",
                                        "pause_catchDword", "pause_catchAll"),
                   !.outcome = o.kind,
                   !.dwError = o.code,
                   !.trace = Append(@, CallEv("onPause"))]
    /\ UNCHANGED <<status, statusHandle, dwCheckPoint, reports, main, nreq>>

pause_paused ==
    /\ ctrl.pc = "pause_paused"
    /\ ctrl' = [ctrl EXCEPT
                   !.pc = "setServiceStatus",
                   !.ret = "idle",
                   !.frame = setServiceStatus(SERVICE_PAUSED, DefaultWin32ExitCode, DefaultWaitHint)]
    /\ UNCHANGED <<status, statusHandle, dwCheckPoint, reports, main, nreq>>

pause_catchDword ==
    /\ ctrl.pc = "pause_catchDword"
    /\ \E hEventSource \in EventSources :
        ctrl' = [ctrl EXCEPT
                   !.pc = "setServiceStatus",
                   !.ret = "idle",
                   !.frame = setServiceStatus(SERVICE_RUNNING, DefaultWin32ExitCode, DefaultWaitHint),
                   !.trace = Append(@,
                       writeErrorLogEntry("Service Pause", ctrl.dwError,
                                            hEventSource))]
    /\ UNCHANGED <<status, statusHandle, dwCheckPoint, reports, main, nreq>>

pause_catchAll ==
    /\ ctrl.pc = "pause_catchAll"
    /\ \E hEventSource \in EventSources :
        ctrl' = [ctrl EXCEPT
                   !.pc = "setServiceStatus",
                   !.ret = "idle",
                   !.frame = setServiceStatus(SERVICE_RUNNING, DefaultWin32ExitCode, DefaultWaitHint),
                   !.trace = Append(@,
                       writeEventLogEntry("Service failed to pause.",
                                            EVENTLOG_ERROR_TYPE, hEventSource))]
    /\ UNCHANGED <<status, statusHandle, dwCheckPoint, reports, main, nreq>>

(***************************************************************************)
(* winService::_continue                                                   *)
(***************************************************************************)
continue_pending ==
    /\ ctrl.pc = "continue_pending"
    /\ ctrl' = [ctrl EXCEPT
                   !.pc = "setServiceStatus",
                   !.ret = "continue_onContinue",
                   !.frame = setServiceStatus(SERVICE_CONTINUE_PENDING, DefaultWin32ExitCode, DefaultWaitHint)]
    /\ UNCHANGED <<status, statusHandle, dwCheckPoint, reports, main, nreq>>

continue_onContinue ==
    /\ ctrl.pc = "continue_onContinue"
    /\ \E o \in Outcomes :
        ctrl' = [ctrl EXCEPT
                   !.pc = AfterCallback(o, "continue_running",
                                        "continue_catchDword",
                                        "continue_catchAll"),
                   !.outcome = o.kind,
                   !.dwError = o.code,
                   !.trace = Append(@, CallEv("onContinue"))]
    /\ UNCHANGED <<status, statusHandle, dwCheckPoint, reports, main, nreq>>

continue_running ==
    /\ ctrl.pc = "continue_running"
    /\ ctrl' = [ctrl EXCEPT
                   !.pc = "setServiceStatus",
                   !.ret = "idle",
                   !.frame = setServiceStatus(SERVICE_RUNNING, DefaultWin32ExitCode, DefaultWaitHint)]
    /\ UNCHANGED <<status, statusHandle, dwCheckPoint, reports, main, nreq>>

\* Variant: the rollback reports Running, as the success path does.
continue_catchDword_Running ==
    /\ ctrl.pc = "continue_catchDword"
    /\ \E hEventSource \in EventSources :
        ctrl' = [ctrl EXCEPT
                   !.pc = "setServiceStatus",
                   !.ret = "idle",
                   !.frame = setServiceStatus(SERVICE_RUNNING, DefaultWin32ExitCode, DefaultWaitHint),
                   !.trace = Append(@,
                       writeErrorLogEntry("Service Continue", ctrl.dwError,
                                            hEventSource))]
    /\ UNCHANGED <<status, statusHandle, dwCheckPoint, reports, main, nreq>>

continue_catchDword ==
    /\ ctrl.pc = "continue_catchDword"
    /\ \E hEventSource \in EventSources :
        ctrl' = [ctrl EXCEPT
                   !.pc = "setServiceStatus",
                   !.ret = "idle",
                   !.frame = setServiceStatus(SERVICE_PAUSED, DefaultWin32ExitCode, DefaultWaitHint),
                   !.trace = Append(@,
                       writeErrorLogEntry("Service Continue", ctrl.dwError,
                                            hEventSource))]
    /\ UNCHANGED <<status, statusHandle, dwCheckPoint, reports, main, nreq>>

continue_catchAll ==
    /\ ctrl.pc = "continue_catchAll"
    /\ \E hEventSource \in EventSources :
        ctrl' = [ctrl EXCEPT
                   !.pc = "setServiceStatus",
                   !.ret = "idle",
                   !.frame = setServiceStatus(SERVICE_PAUSED, DefaultWin32ExitCode, DefaultWaitHint),
                   !.trace = Append(@,
                       writeEventLogEntry("Service failed to resume.",
                                            EVENTLOG_ERROR_TYPE, hEventSource))]
    /\ UNCHANGED <<status, statusHandle, dwCheckPoint, reports, main, nreq>>

(***************************************************************************)
(* winService::shutdown                                                    *)
(***************************************************************************)
shutdown_onShutdown ==
    /\ ctrl.pc = "shutdown_onShutdown"
    /\ \E o \in Outcomes :
        ctrl' = [ctrl EXCEPT
                   !.pc = AfterCallback(o, "shutdown_stopped",
                                        "shutdown_catchDword",
                                        "shutdown_catchAll"),
                   !.outcome = o.kind,
                   !.dwError = o.code,
                   !.trace = Append(@, CallEv("onShutdown"))]
    /\ UNCHANGED <<status, statusHandle, dwCheckPoint, reports, main, nreq>>

shutdown_stopped ==
    /\ ctrl.pc = "shutdown_stopped"
    /\ ctrl' = [ctrl EXCEPT
                   !.pc = "setServiceStatus",
                   !.ret = "idle",
                   !.frame = setServiceStatus(SERVICE_STOPPED, DefaultWin32ExitCode, DefaultWaitHint)]
    /\ UNCHANGED <<status, statusHandle, dwCheckPoint, reports, main, nreq>>

shutdown_catchDword ==
    /\ ctrl.pc = "shutdown_catchDword"
    /\ \E hEventSource \in EventSources :
        ctrl' = [ctrl EXCEPT
                   !.pc = "idle",
                   !.trace = Append(@,
                       writeErrorLogEntry("Service Shutdown", ctrl.dwError,
                                          hEventSource))]
    /\ UNCHANGED <<status, statusHandle, dwCheckPoint, reports, main, nreq>>

shutdown_catchAll ==
    /\ ctrl.pc = "shutdown_catchAll"
    /\ \E hEventSource \in EventSources :
        ctrl' = [ctrl EXCEPT
                   !.pc = "idle",
                   !.trace = Append(@,
                       writeEventLogEntry("Service failed to shut down.",
                                          EVENTLOG_ERROR_TYPE, hEventSource))]
    /\ UNCHANGED <<status, statusHandle, dwCheckPoint, reports, main, nreq>>

(***************************************************************************)
(* Specification: serialized delivery.  The control-request source         *)
(* delivers one request at a time and only after start() has returned.     *)
(***************************************************************************)
Serialized == main.pc = "returned"

Start ==
    \/ RegisterServiceCtrlHandler
    \/ ServiceMain
    \/ start_pending
    \/ start_onStart
    \/ start_running
    \/ start_catchDword
    \/ start_catchAll

Stop ==
    \/ stop_entry
    \/ stop_pending
    \/ stop_onStop
    \/ stop_stopped
    \/ stop_catchDword
    \/ stop_catchAll

Pause ==
    \/ pause_pending
    \/ pause_onPause
    \/ pause_paused
    \/ pause_catchDword
    \/ pause_catchAll

Continue ==
    \/ continue_pending
    \/ continue_onContinue
    \/ continue_running
    \/ continue_catchDword
    \/ continue_catchAll

Shutdown ==
    \/ shutdown_onShutdown
    \/ shutdown_stopped
    \/ shutdown_catchDword
    \/ shutdown_catchAll

\* The accesses in the order of the source text.
SourceOrder ==
    <<"statusHandle_", "dwOriginalState", "dwCurrentState", "dwWin32ExitCode",
      "dwWaitHint", "dwCheckPoint_read", "dwCheckPoint_write", "dwCheckPoint",
      "statusHandle">>

Position(a) == CHOOSE i \in 1..Len(SourceOrder) : SourceOrder[i] = a

\* Access a is the first, in source order, of the accesses in S.
FirstOf(a, S) == a \in S /\ \A b \in S : Position(a) <= Position(b)

\* One thread runs at a time: no other thread can tell in which order a
\* thread makes its accesses, and they are taken in source order.
InOrder(th, a) == FirstOf(a, Todo(th))

\* The accesses to shared data and the report, in source order.
SetStatus ==
    \/ InOrder("main", "statusHandle_") /\ ServiceMain_statusHandle
    \/ InOrder("ctrl", "dwOriginalState") /\ stop_dwOriginalState
    \/ \E th \in Threads :
        \/ InOrder(th, "dwCurrentState")
               /\ setServiceStatus_dwCurrentState(th)
        \/ InOrder(th, "dwWin32ExitCode")
               /\ setServiceStatus_dwWin32ExitCode(th)
        \/ InOrder(th, "dwWaitHint")
               /\ setServiceStatus_dwWaitHint(th)
        \/ InOrder(th, "dwCheckPoint_read")
               /\ setServiceStatus_dwCheckPoint_read(th)
        \/ InOrder(th, "dwCheckPoint_write")
               /\ setServiceStatus_dwCheckPoint_write(th)
        \/ InOrder(th, "dwCheckPoint")
               /\ setServiceStatus_dwCheckPoint(th)
        \/ InOrder(th, "statusHandle")
               /\ setServiceStatus_statusHandle(th)
        \/ SetServiceStatus(th)

Deliver == \E dwCtrl \in CtrlCodes : Serialized /\ ServiceCtrlHandler(dwCtrl)

Next ==
    \/ Start
    \/ SetStatus
    \/ Deliver
    \/ Stop
    \/ Pause
    \/ Continue
    \/ Shutdown

Spec == Init /\ [][Next]_vars

(***************************************************************************)
(* Specification: overlapping delivery.  ServiceMain runs on the service   *)
(* thread and ServiceCtrlHandler on the control dispatcher thread; once    *)
(* the handler is registered nothing in the code keeps a control request   *)
(* from being handled while ServiceMain has not stored the handle yet or   *)
(* while start() is still executing.  The two threads share status_, the   *)
(* checkpoint counter and statusHandle_ without synchronization, which is  *)
(* a data race: the build decides in which order a thread makes the        *)
(* accesses that lie between two calls it cannot see into.  A thread       *)
(* therefore takes them in any order that Before allows, each as one step, *)
(* and the steps of the two threads interleave: a report can carry fields  *)
(* written by both threads, a report can be made twice, two calls can take *)
(* the same checkpoint, a report can be made with a NULL handle, and a     *)
(* value read early can be used after the other thread has run.            *)
(*                                                                         *)
(* Steps whose place among the steps of the other thread changes no report *)
(* and no value read (Alone, Local, Silent) are taken at once instead of   *)
(* in every place; the reports made and the values left in status_, the    *)
(* counter and statusHandle_ are those of the free interleaving.  The runs *)
(* are bounded: one request is delivered (MaxOverlapped) to a service      *)
(* constructed with every control accepted (InitOverlapped), and the event *)
(* log can be opened whenever an entry is written (LogsOpened).            *)
(***************************************************************************)
\* The other thread makes no step any more: the order of the accesses of
\* th cannot be told.
Alone(th) ==
    IF th = "ctrl" THEN main.pc \in {"returned", "thrown"}
    ELSE ctrl.pc = "idle" /\ nreq >= MaxOverlapped

Other(th) == IF th = "main" THEN "ctrl" ELSE "main"

\* The next step of th touches nothing but its own locals (a callback, a
\* log entry, the arguments of a call): the other thread cannot tell when
\* it is made, and it is made before the other thread goes on.
Local(th) ==
    ThreadOf(th).pc \notin
        {"ServiceMain", "setServiceStatus", "idle", "returned", "thrown"}

\* th may still store an exit code other than NO_ERROR: only start() does,
\* with the code onStart threw.
ExitCodeToCome(th) ==
    /\ th = "main"
    /\ \/ main.outcome = "none"
       \/ main.outcome = "dword" /\ main.dwError # DefaultWin32ExitCode

\* The accesses of th whose place among the others cannot be told: the
\* store of the wait hint (every call stores the 0 the constructor stored),
\* the store of the exit code the field holds when the other thread stores
\* no other, and the read of statusHandle_ once the handle is stored (it is
\* stored once).
Silent(th) ==
    {a \in Todo(th) :
        /\ Ready(th, a)
        /\ \/ a = "dwWaitHint" /\ status.dwWaitHint = DefaultWaitHint
                               /\ ThreadOf(th).frame.dwWaitHint = DefaultWaitHint
           \/ a = "dwWin32ExitCode"
                  /\ status.dwWin32ExitCode = DefaultWin32ExitCode
                  /\ ThreadOf(th).frame.dwWin32ExitCode = DefaultWin32ExitCode
                  /\ ~ExitCodeToCome(Other(th))
           \/ a = "statusHandle" /\ statusHandle # NULL}

\* The accesses th may make next: source order where the order cannot be
\* told, any access that is ready where it can.
AnyOrder(th, a) ==
    /\ a \in Todo(th)
    /\ IF Alone(th) THEN InOrder(th, a)
       ELSE /\ ~Local(Other(th))
            /\ IF Silent(th) # {} THEN FirstOf(a, Silent(th))
               ELSE Ready(th, a)

SetStatusOverlapped ==
    \/ AnyOrder("main", "statusHandle_") /\ ServiceMain_statusHandle
    \/ AnyOrder("ctrl", "dwOriginalState") /\ stop_dwOriginalState
    \/ \E th \in Threads :
        \/ AnyOrder(th, "dwCurrentState")
               /\ setServiceStatus_dwCurrentState(th)
        \/ AnyOrder(th, "dwWin32ExitCode")
               /\ setServiceStatus_dwWin32ExitCode(th)
        \/ AnyOrder(th, "dwWaitHint")
               /\ setServiceStatus_dwWaitHint(th)
        \/ AnyOrder(th, "dwCheckPoint_read")
               /\ setServiceStatus_dwCheckPoint_read(th)
        \/ AnyOrder(th, "dwCheckPoint_write")
               /\ setServiceStatus_dwCheckPoint_write(th)
        \/ AnyOrder(th, "dwCheckPoint")
               /\ setServiceStatus_dwCheckPoint(th)
        \/ AnyOrder(th, "statusHandle")
               /\ setServiceStatus_statusHandle(th)
        \/ (Alone(th) \/ ~Local(Other(th))) /\ SetServiceStatus(th)

DeliverOverlapped ==
    \E dwCtrl \in CtrlCodes : nreq < MaxOverlapped /\ ServiceCtrlHandler(dwCtrl)

\* Every log entry written so far found the event log open.
LogsOpened ==
    \A th \in Threads :
        \A i \in 1..Len(ThreadOf(th).trace) :
            ThreadOf(th).trace[i].kind = "log"
                => ThreadOf(th).trace[i].hEventSource # NULL

NextOverlapped ==
    \/ Start /\ LogsOpened'
    \/ SetStatusOverlapped
    \/ DeliverOverlapped
    \/ Stop /\ LogsOpened'
    \/ Pause /\ LogsOpened'
    \/ Continue /\ LogsOpened'
    \/ Shutdown /\ LogsOpened'

\* The service of the overlapped runs is constructed with the three flags
\* true: they only give dwControlsAccepted, which no handler reads or
\* stores.
InitOverlapped ==
    Init /\ status.dwControlsAccepted = ControlsAccepted(TRUE, TRUE, TRUE)

SpecOverlapped == InitOverlapped /\ [][NextOverlapped]_vars

(***************************************************************************)
(* Reading a handler's trace.                                              *)
(***************************************************************************)
\* The pending states of section 3.
PendingStates ==
    {SERVICE_START_PENDING, SERVICE_STOP_PENDING,
     SERVICE_CONTINUE_PENDING, SERVICE_PAUSE_PENDING}

\* The events of a trace that are status reports.
ReportEvents(tr) == SelectSeq(tr, LAMBDA e : e.kind = "report")

\* The states carried by the reports of a trace, in order.
ReportStates(tr) ==
    [i \in 1..Len(ReportEvents(tr)) |->
        reports[ReportEvents(tr)[i].arg].dwCurrentState]

\* The last report issued by the handler of a trace.
LastReport(tr) == reports[ReportEvents(tr)[Len(ReportEvents(tr))].arg]

\* The state that was current when the handler of a trace was entered: the
\* state of the report published just before the handler's first report, or
\* the constructed state when there is none.
StateBefore(tr) ==
    LET first == ReportEvents(tr)[1].arg
    IN  IF first = 1 THEN SERVICE_START_PENDING
        ELSE reports[first - 1].dwCurrentState

\* A trace with the logging left out, each event reduced to its kind, the
\* callback's name and the reported state.
Shape(tr) ==
    LET visible == SelectSeq(tr, LAMBDA e : e.kind # "log")
    IN  [i \in 1..Len(visible) |->
            [kind |-> visible[i].kind,
             name |-> visible[i].name,
             state |-> IF visible[i].kind = "report"
                       THEN reports[visible[i].arg].dwCurrentState
                       ELSE 0]]

Reported(st) == [kind |-> "report", name |-> "SetServiceStatus", state |-> st]
Called(cb) == [kind |-> "callback", name |-> cb, state |-> 0]

\* The table of section 4.2: pending report, callback and success report
\* of Stop, Pause and Continue.
PendingOf(dwCtrl) ==
    CASE dwCtrl = SERVICE_CONTROL_STOP -> SERVICE_STOP_PENDING
      [] dwCtrl = SERVICE_CONTROL_PAUSE -> SERVICE_PAUSE_PENDING
      [] dwCtrl = SERVICE_CONTROL_CONTINUE -> SERVICE_CONTINUE_PENDING

CallbackOf(dwCtrl) ==
    CASE dwCtrl = SERVICE_CONTROL_STOP -> "onStop"
      [] dwCtrl = SERVICE_CONTROL_PAUSE -> "onPause"
      [] dwCtrl = SERVICE_CONTROL_CONTINUE -> "onContinue"

SuccessOf(dwCtrl) ==
    CASE dwCtrl = SERVICE_CONTROL_STOP -> SERVICE_STOPPED
      [] dwCtrl = SERVICE_CONTROL_PAUSE -> SERVICE_PAUSED
      [] dwCtrl = SERVICE_CONTROL_CONTINUE -> SERVICE_RUNNING

Transitions ==
    {SERVICE_CONTROL_STOP, SERVICE_CONTROL_PAUSE, SERVICE_CONTROL_CONTINUE}

KnownCodes ==
    Transitions \cup {SERVICE_CONTROL_SHUTDOWN, SERVICE_CONTROL_INTERROGATE}

\* start() has returned / the control handler has returned from a request.
StartReturned == main.pc = "returned"
CtrlReturned == ctrl.pc = "idle" /\ nreq > 0
Failed(th) == th.outcome \in {"dword", "other"}

(***************************************************************************)
(* Claims                                                                  *)
(***************************************************************************)

\* C1: when the callback completes normally, each of Start, Stop, Pause and
\* Continue issues exactly two reports, the pending state and then the
\* success state, and invokes its callback exactly once in between.
C1_SuccessSequence ==
    /\ (StartReturned /\ main.outcome = "ok") =>
           Shape(main.trace) =
               <<Reported(SERVICE_START_PENDING), Called("onStart"),
                 Reported(SERVICE_RUNNING)>>
    /\ (CtrlReturned /\ ctrl.dwCtrl \in Transitions /\ ctrl.outcome = "ok") =>
           Shape(ctrl.trace) =
               <<Reported(PendingOf(ctrl.dwCtrl)), Called(CallbackOf(ctrl.dwCtrl)),
                 Reported(SuccessOf(ctrl.dwCtrl))>>

\* A successful Start followed by a successful Pause.
C1_Witness ==
    /\ StartReturned /\ main.outcome = "ok"
    /\ CtrlReturned /\ ctrl.dwCtrl = SERVICE_CONTROL_PAUSE /\ ctrl.outcome = "ok"

\* C2: when onStop fails (either kind), stop() reports exactly
\* [StopPending, s] and leaves s current, s being the state that was current
\* when Stop was delivered.
C2_StopRollback ==
    (CtrlReturned /\ ctrl.dwCtrl = SERVICE_CONTROL_STOP /\ Failed(ctrl)) =>
        /\ ReportStates(ctrl.trace) =
               <<SERVICE_STOP_PENDING, StateBefore(ctrl.trace)>>
        /\ status.dwCurrentState = StateBefore(ctrl.trace)

\* A failed Stop delivered while Paused.
C2_Witness ==
    /\ CtrlReturned /\ ctrl.dwCtrl = SERVICE_CONTROL_STOP /\ Failed(ctrl)
    /\ StateBefore(ctrl.trace) = SERVICE_PAUSED
    /\ status.dwCurrentState = SERVICE_PAUSED

\* C3: when onPause or onContinue fails (either kind), the state current
\* after the handler returns is the state that was current immediately
\* before the pending report, whatever that state was.
C3_PauseContinueRollback ==
    (/\ CtrlReturned
     /\ ctrl.dwCtrl \in {SERVICE_CONTROL_PAUSE, SERVICE_CONTROL_CONTINUE}
     /\ Failed(ctrl)) =>
        status.dwCurrentState = StateBefore(ctrl.trace)

\* C4: a structured failure of onStart with code c makes start() report
\* exactly [StartPending, Stopped], the Stopped report carrying exit code c.
C4_StartFailureCode ==
    (StartReturned /\ main.outcome = "dword") =>
        /\ ReportStates(main.trace) = <<SERVICE_START_PENDING, SERVICE_STOPPED>>
        /\ LastReport(main.trace).dwWin32ExitCode = main.dwError

\* A Start whose callback failed with a non-zero code.
C4_Witness ==
    /\ StartReturned /\ main.outcome = "dword" /\ main.dwError # 0
    /\ LastReport(main.trace).dwWin32ExitCode = main.dwError

\* C5: every failure of onStart, structured or not, ends with a Stopped
\* report carrying a non-zero exit code.
C5_StartFailureNonZero ==
    (StartReturned /\ Failed(main)) =>
        /\ LastReport(main.trace).dwCurrentState = SERVICE_STOPPED
        /\ LastReport(main.trace).dwWin32ExitCode # 0

\* C6: under serialized delivery that begins with Start, whenever no
\* request is being processed the current state and the last reported state
\* are not pending states.
C6_NoPendingAtRest ==
    (StartReturned /\ ctrl.pc = "idle") =>
        /\ status.dwCurrentState \notin PendingStates
        /\ reports[Len(reports)].dwCurrentState \notin PendingStates

\* At rest after a failed Stop that followed another request.
C6_Witness ==
    /\ StartReturned /\ ctrl.pc = "idle" /\ nreq >= 2
    /\ ctrl.dwCtrl = SERVICE_CONTROL_STOP /\ Failed(ctrl)

\* C7: an Interrogate request leaves the current state unchanged and
\* causes exactly one report, which carries that state.
C7_InterrogateReports ==
    (CtrlReturned /\ ctrl.dwCtrl = SERVICE_CONTROL_INTERROGATE) =>
        /\ Len(ReportEvents(ctrl.trace)) = 1
        /\ LastReport(ctrl.trace).dwCurrentState = StateBefore(ctrl.trace)
        /\ status.dwCurrentState = StateBefore(ctrl.trace)

\* C8: a control code other than Stop, Pause, Continue, Shutdown and
\* Interrogate changes neither the state, the exit code nor the checkpoint,
\* and the handler returns having invoked no callback, written no log entry
\* and issued no report.
C8_UnknownCodeNoOp ==
    [][(nreq' = nreq + 1 /\ ctrl'.dwCtrl \notin KnownCodes) =>
           /\ UNCHANGED <<status, dwCheckPoint, reports>>
           /\ ctrl'.pc = "idle"
           /\ ctrl'.trace = <<>>]_vars

\* A user-defined control code has been handled after a successful Pause
\* left a non-zero checkpoint.
C8_Witness ==
    /\ CtrlReturned /\ ctrl.dwCtrl = SERVICE_CONTROL_USER
    /\ ctrl.trace = <<>>
    /\ status.dwCurrentState = SERVICE_PAUSED
    /\ status.dwCheckPoint > 0

\* C9: every Running or Stopped report carries checkpoint 0, and the
\* checkpoints of the pending reports strictly increase in report order,
\* starting at 1.
C9_CheckpointProgress ==
    /\ \A i \in 1..Len(reports) :
           reports[i].dwCurrentState \in {SERVICE_RUNNING, SERVICE_STOPPED} =>
               reports[i].dwCheckPoint = 0
    /\ \A i \in 1..Len(reports) :
           reports[i].dwCurrentState \in PendingStates =>
               /\ reports[i].dwCheckPoint >= 1
               /\ \A j \in 1..(i - 1) :
                      reports[j].dwCurrentState \in PendingStates =>
                          reports[j].dwCheckPoint < reports[i].dwCheckPoint
    /\ reports # <<>> =>
           /\ reports[1].dwCurrentState = SERVICE_START_PENDING
           /\ reports[1].dwCheckPoint = 1

\* Three pending reports with Running and Stopped reports among them.
C9_Witness ==
    /\ Cardinality({i \in 1..Len(reports) :
                       reports[i].dwCurrentState \in PendingStates}) >= 3
    /\ \E i \in 1..Len(reports) : reports[i].dwCurrentState = SERVICE_RUNNING
    /\ \E i \in 1..Len(reports) : reports[i].dwCurrentState = SERVICE_STOPPED

\* C10: every report of a non-pending state (Running, Paused, Stopped)
\* carries the baseline checkpoint, the 0 that a Running report carries.
C10_NonPendingBaseline ==
    \A i \in 1..Len(reports) :
        reports[i].dwCurrentState \notin PendingStates =>
            reports[i].dwCheckPoint = 0

\* The states of all the reports published so far, in order.
AllReportStates == [i \in 1..Len(reports) |-> reports[i].dwCurrentState]

\* C11: on a fresh controller, Start (onStart succeeds), Pause (onPause
\* succeeds), Continue (onContinue fails with structured code 5) publishes
\* exactly the states [StartPending, Running, PausePending, Paused,
\* ContinuePending, Paused] and ends with Paused current.
C11_Scenario ==
    (/\ StartReturned /\ main.outcome = "ok"
     /\ CtrlReturned /\ nreq = 2
     /\ ctrl.handled = <<[dwCtrl |-> SERVICE_CONTROL_PAUSE, outcome |-> "ok"]>>
     /\ ctrl.dwCtrl = SERVICE_CONTROL_CONTINUE
     /\ ctrl.outcome = "dword" /\ ctrl.dwError = 5) =>
        /\ AllReportStates =
               <<SERVICE_START_PENDING, SERVICE_RUNNING, SERVICE_PAUSE_PENDING,
                 SERVICE_PAUSED, SERVICE_CONTINUE_PENDING, SERVICE_PAUSED>>
        /\ status.dwCurrentState = SERVICE_PAUSED

\* The scenario has run to its end.
C11_Witness ==
    /\ StartReturned /\ main.outcome = "ok"
    /\ CtrlReturned /\ nreq = 2
    /\ ctrl.handled = <<[dwCtrl |-> SERVICE_CONTROL_PAUSE, outcome |-> "ok"]>>
    /\ ctrl.dwCtrl = SERVICE_CONTROL_CONTINUE
    /\ ctrl.outcome = "dword" /\ ctrl.dwError = 5
    /\ Len(reports) = 6

\* C12: a Shutdown request issues no pending report, invokes onShutdown
\* exactly once and, whatever the callback's outcome, ends with a terminal
\* report, so that Stopped is current when shutdown() returns.
C12_ShutdownTerminal ==
    (CtrlReturned /\ ctrl.dwCtrl = SERVICE_CONTROL_SHUTDOWN) =>
        /\ Shape(ctrl.trace) =
               <<Called("onShutdown"), Reported(SERVICE_STOPPED)>>
        /\ status.dwCurrentState = SERVICE_STOPPED

\* The kinds of the events of a trace, in order.
Kinds(tr) == [i \in 1..Len(tr) |-> tr[i].kind]

\* The calls of the logging routine in a trace, and those of them that
\* reached ReportEvent (an entry was written).
LogCalls(tr) == SelectSeq(tr, LAMBDA e : e.kind = "log")
LogEntries(tr) ==
    SelectSeq(tr, LAMBDA e : e.kind = "log" /\ e.hEventSource # NULL)

\* The handler of thread th has returned from Start, Stop, Pause or Continue.
Transitioned(th) ==
    IF th = "main" THEN StartReturned
    ELSE CtrlReturned /\ ctrl.dwCtrl \in Transitions

\* C13 as stated: a failed callback of Start, Stop, Pause or Continue makes
\* the handler write exactly one error log entry, then issue exactly one
\* rollback report, then return; a successful callback writes no entry.
C13_OneLogEntry ==
    \A th \in {"main", "ctrl"} :
        Transitioned(th) =>
            /\ Failed(ThreadOf(th)) =>
                   /\ Kinds(ThreadOf(th).trace) =
                          <<"report", "callback", "log", "report">>
                   /\ Len(LogEntries(ThreadOf(th).trace)) = 1
                   /\ LogEntries(ThreadOf(th).trace)[1].wType
                          = EVENTLOG_ERROR_TYPE
            /\ ThreadOf(th).outcome = "ok" =>
                   LogCalls(ThreadOf(th).trace) = <<>>

\* C13 (amended): a failed callback of Start, Stop, Pause or Continue makes
\* the handler call the logging routine exactly once, with error severity,
\* then issue exactly one rollback report, then return; the call writes at
\* most one entry.  A successful callback causes no logging call.
C13_FailureContained ==
    \A th \in {"main", "ctrl"} :
        Transitioned(th) =>
            /\ Failed(ThreadOf(th)) =>
                   /\ Kinds(ThreadOf(th).trace) =
                          <<"report", "callback", "log", "report">>
                   /\ ThreadOf(th).trace[3].wType = EVENTLOG_ERROR_TYPE
                   /\ Len(LogEntries(ThreadOf(th).trace)) <= 1
            /\ ThreadOf(th).outcome = "ok" =>
                   LogCalls(ThreadOf(th).trace) = <<>>

\* A failed Pause whose logging call found no event source, after a failed
\* Start whose logging call wrote its entry.
C13_Witness ==
    /\ StartReturned /\ Failed(main) /\ Len(LogEntries(main.trace)) = 1
    /\ CtrlReturned /\ ctrl.dwCtrl = SERVICE_CONTROL_PAUSE /\ Failed(ctrl)
    /\ Len(LogCalls(ctrl.trace)) = 1
    /\ LogEntries(ctrl.trace) = <<>>

\* The exit code that was reported last before the handler of a trace
\* issued its first report.
ExitCodeBefore(tr) ==
    LET first == ReportEvents(tr)[1].arg
    IN  IF first = 1 THEN NO_ERROR
        ELSE reports[first - 1].dwWin32ExitCode

\* C14: the code of a structured failure is the exit code of Start's
\* rollback report only; the rollback report of Stop, Pause and Continue
\* carries the exit code that was reported before the request, whatever
\* code was signaled, also when that exit code is non-zero.
C14_ExitCodeKept ==
    /\ (StartReturned /\ main.outcome = "dword") =>
           LastReport(main.trace).dwWin32ExitCode = main.dwError
    /\ (CtrlReturned /\ ctrl.dwCtrl \in Transitions /\ ctrl.outcome = "dword") =>
           LastReport(ctrl.trace).dwWin32ExitCode = ExitCodeBefore(ctrl.trace)

\* The index in reports of the first and of the last report of a trace.
FirstReportIndex(tr) == ReportEvents(tr)[1].arg
LastReportIndex(tr) == ReportEvents(tr)[Len(ReportEvents(tr))].arg

\* C15: when a Stop request is handled while start() is between its
\* StartPending report and its terminal report, the last report issued
\* once both handlers have returned carries a non-pending state.
C15_OverlapEndsSettled ==
    (/\ StartReturned
     /\ CtrlReturned /\ nreq = 1 /\ ctrl.dwCtrl = SERVICE_CONTROL_STOP
     /\ FirstReportIndex(main.trace) < FirstReportIndex(ctrl.trace)
     /\ FirstReportIndex(ctrl.trace) < LastReportIndex(main.trace)) =>
        reports[Len(reports)].dwCurrentState \notin PendingStates

\* The accepted-controls masks a constructor call can produce.
ControlMasks ==
    {ControlsAccepted(a, b, c) : a \in BOOLEAN, b \in BOOLEAN, c \in BOOLEAN}

\* C16: no step changes the accepted-controls set or the service type of
\* status_, and every report carries them as they were constructed.
C16_ControlsFixed ==
    [][/\ status'.dwControlsAccepted = status.dwControlsAccepted
       /\ status'.dwServiceType = status.dwServiceType
       /\ status.dwServiceType = SERVICE_WIN32_OWN_PROCESS
       /\ status.dwControlsAccepted \in ControlMasks
       /\ \A i \in 1..Len(reports') :
              /\ reports'[i].dwControlsAccepted = status.dwControlsAccepted
              /\ reports'[i].dwServiceType = status.dwServiceType]_vars

\* A service constructed with fCanStop and fCanPauseContinue only has
\* handled two requests, the last one failing.
C16_Witness ==
    /\ status.dwControlsAccepted =
           SERVICE_ACCEPT_STOP + SERVICE_ACCEPT_PAUSE_CONTINUE
    /\ CtrlReturned /\ nreq = 2 /\ Failed(ctrl)
    /\ Len(reports) >= 5
    /\ \A i \in 1..Len(reports) :
           reports[i].dwControlsAccepted =
               SERVICE_ACCEPT_STOP + SERVICE_ACCEPT_PAUSE_CONTINUE

\* The invocations of lifecycle callbacks in a trace.
Callbacks(tr) == SelectSeq(tr, LAMBDA e : e.kind = "callback")

\* What the code of each handler reports, by request and callback outcome
\* alone; s, the state current at entry, matters to a failed Stop only.
HandlerReports(dwCtrl, failed, s) ==
    CASE dwCtrl = SERVICE_CONTROL_STOP ->
             <<SERVICE_STOP_PENDING, IF failed THEN s ELSE SERVICE_STOPPED>>
      [] dwCtrl = SERVICE_CONTROL_PAUSE ->
             <<SERVICE_PAUSE_PENDING,
               IF failed THEN SERVICE_RUNNING ELSE SERVICE_PAUSED>>
      [] dwCtrl = SERVICE_CONTROL_CONTINUE ->
             <<SERVICE_CONTINUE_PENDING,
               IF failed THEN SERVICE_PAUSED ELSE SERVICE_RUNNING>>
      [] dwCtrl = SERVICE_CONTROL_SHUTDOWN ->
             IF failed THEN <<>> ELSE <<SERVICE_STOPPED>>

HandlerCallback(dwCtrl) ==
    IF dwCtrl = SERVICE_CONTROL_SHUTDOWN THEN "onShutdown"
    ELSE CallbackOf(dwCtrl)

\* The state that was current when the last request was delivered: the
\* state of the last report published before the handler's own reports.
StateAtDelivery ==
    reports[Len(reports) - Len(ReportEvents(ctrl.trace))].dwCurrentState

\* C17: whatever state is current and whatever the capability flags, a
\* Stop, Pause, Continue or Shutdown request invokes its callback exactly
\* once and issues reports whose states depend on the request and the
\* callback's outcome only, except that a failed Stop reports the state
\* that was current.
C17_NoStateGuard ==
    (CtrlReturned /\ StartReturned
         /\ ctrl.dwCtrl \in Transitions \cup {SERVICE_CONTROL_SHUTDOWN}) =>
        /\ Len(Callbacks(ctrl.trace)) = 1
        /\ Callbacks(ctrl.trace)[1].name = HandlerCallback(ctrl.dwCtrl)
        /\ ReportStates(ctrl.trace) =
               HandlerReports(ctrl.dwCtrl, Failed(ctrl), StateAtDelivery)

\* A successful Continue delivered to a stopped service whose flags allow no
\* control at all: it ends Running.
C17_Witness ==
    /\ CtrlReturned /\ ctrl.dwCtrl = SERVICE_CONTROL_CONTINUE
    /\ ctrl.outcome = "ok"
    /\ StateAtDelivery = SERVICE_STOPPED
    /\ status.dwControlsAccepted = 0
    /\ status.dwCurrentState = SERVICE_RUNNING

\* C18: when registration gives no status handle, ServiceMain throws:
\* start() and onStart are not called, no report is ever issued and the
\* current state stays the constructed StartPending.
C18_RegistrationFailure ==
    (main.pc # "ServiceMain" /\ main.handle = NULL) =>
        /\ main.pc \in {"ServiceMain_statusHandle", "thrown"}
        /\ statusHandle = NULL
        /\ main.trace = <<>>
        /\ reports = <<>>
        /\ ctrl = CtrlIdle /\ nreq = 0
        /\ status.dwCurrentState = SERVICE_START_PENDING
        /\ dwCheckPoint = 1

\* ServiceMain has thrown.
C18_Witness ==
    /\ main.pc = "thrown" /\ main.handle = NULL /\ statusHandle = NULL
    /\ reports = <<>>

\* C19: every report, of whatever handler and kind, carries wait hint 0.
C19_WaitHintZero ==
    /\ status.dwWaitHint = 0
    /\ \A i \in 1..Len(reports) : reports[i].dwWaitHint = 0

\* Reports of every kind have been issued: pending, Start's rollback with
\* a non-zero exit code, and a rollback and a success report of later
\* requests.
C19_Witness ==
    /\ StartReturned /\ main.outcome = "dword" /\ main.dwError = 5
    /\ CtrlReturned /\ nreq = 2 /\ Failed(ctrl)
    /\ ctrl.handled[1].outcome = "ok"
    /\ Len(reports) = 6
    /\ \A i \in 1..Len(reports) : reports[i].dwWaitHint = 0

=============================================================================
